---- MODULE Spec2Model ----
(***************************************************************************)
(* Model of advanced-keyword-bot.py: the MessageStats store with its       *)
(* counts and leaderboard, and the KeywordBot handlers edit_keyword,       *)
(* delete_keyword, show_leaderboard and message_handler, run one at a time *)
(* or as coroutines that interleave at their awaits.                       *)
(* Python str values are sequences of one-character strings; a dict is a   *)
(* sequence of <<key, value>> pairs in insertion order.                    *)
(***************************************************************************)
EXTENDS Integers, Sequences, FiniteSets, Bags, TLC

VARIABLES
    keywords,       \* self.keywords, the in-memory keyword table (a dict)
    keywords_file,  \* the keyword table as last written by save_data
    stats,          \* self.message_stats.stats: users, messages, and whether
                    \* messages is a defaultdict(list) or a plain dict
    stats_file,     \* message_stats.json: absent, or the last JSON written
    handler,        \* the handler that ran last ("__init__" after a start)
    replies,        \* the reply_text calls of the last handler invocation
    outcome,        \* how that invocation ended: "returned" or "KeyError",
                    \* or "awaiting" when it is suspended at an await
    pending         \* the handler coroutines suspended at an await, each
                    \* with the reply_text call it awaits (a bag)

vars ==
    <<keywords, keywords_file, stats, stats_file, handler, replies, outcome,
      pending>>

----------------------------------------------------------------------------
(* Bounds of the model *)

MaxUser == 2
MaxTime == 1
MaxMessages == 2
MaxKeywords == 3
MaxLimit == 2
MaxPending == 2

Users == 1..MaxUser
Dates == 0..MaxTime

----------------------------------------------------------------------------
(* str *)

UpperLetters == <<"A", "B", "C", "D", "E", "I", "L", "M", "N", "O", "P", "R", "U", "V", "W">>
LowerLetters == <<"a", "b", "c", "d", "e", "i", "l", "m", "n", "o", "p", "r", "u", "v", "w">>

LowerChar(c) ==
    IF \E i \in 1..Len(UpperLetters) : UpperLetters[i] = c
    THEN LowerLetters[CHOOSE i \in 1..Len(UpperLetters) : UpperLetters[i] = c]
    ELSE c

UpperChar(c) ==
    IF \E i \in 1..Len(LowerLetters) : LowerLetters[i] = c
    THEN UpperLetters[CHOOSE i \in 1..Len(LowerLetters) : LowerLetters[i] = c]
    ELSE c

\* str.lower()
Lower(s) == [i \in 1..Len(s) |-> LowerChar(s[i])]

\* str.upper()
Upper(s) == [i \in 1..Len(s) |-> UpperChar(s[i])]

RECURSIVE LStrip(_)
LStrip(s) == IF s # <<>> /\ Head(s) = " " THEN LStrip(Tail(s)) ELSE s

RECURSIVE RStrip(_)
RStrip(s) ==
    IF s # <<>> /\ s[Len(s)] = " " THEN RStrip(SubSeq(s, 1, Len(s) - 1)) ELSE s

\* str.strip()
Strip(s) == RStrip(LStrip(s))

\* the operator `sub in s` on str
Contains(sub, s) ==
    \E i \in 0..(Len(s) - Len(sub)) : SubSeq(s, i + 1, i + Len(sub)) = sub

RECURSIVE Join(_, _)
\* sep.join(words)
Join(sep, words) ==
    IF words = <<>> THEN <<>>
    ELSE IF Len(words) = 1 THEN words[1]
    ELSE words[1] \o sep \o Join(sep, Tail(words))

Digits == <<"0", "1", "2", "3", "4", "5", "6", "7", "8", "9">>

RECURSIVE Str(_)
\* str(n) for an int n >= 0
Str(n) == IF n < 10 THEN <<Digits[n + 1]>> ELSE Str(n \div 10) \o <<Digits[(n % 10) + 1]>>

\* datetime.isoformat(): date and time separated by "T"
Isoformat(d) == <<"T">> \o Str(d)

\* str(datetime): date and time separated by " "
StrDate(d) == <<" ">> \o Str(d)

----------------------------------------------------------------------------
(* dict, in insertion order *)

DictKeys(d) == {d[i][1] : i \in 1..Len(d)}

\* k in d
Has(d, k) == k \in DictKeys(d)

IndexOf(d, k) == CHOOSE i \in 1..Len(d) : d[i][1] = k

\* d[k] for a key that is present
Get(d, k) == d[IndexOf(d, k)][2]

\* a key that is assigned goes last, present or not
Put_MoveToEnd(d, k, v) ==
    Append(SelectSeq(d, LAMBDA e : e[1] # k), <<k, v>>)

\* d[k] = v: a present key keeps its position, a new key goes last
Put(d, k, v) ==
    IF Has(d, k) THEN [d EXCEPT ![IndexOf(d, k)] = <<k, v>>]
    ELSE Append(d, <<k, v>>)

\* the dict without its last entry
Pop_Last(d, k) == SubSeq(d, 1, Len(d) - 1)

\* d.pop(k) for a key that is present: the dict without k
Pop(d, k) ==
    LET i == IndexOf(d, k)
    IN  SubSeq(d, 1, i - 1) \o SubSeq(d, i + 1, Len(d))

\* d.update(e) of a record-like dict: fields of e replace or extend those of d
DictUpdate(d, e) ==
    [f \in (DOMAIN d) \cup (DOMAIN e) |-> IF f \in DOMAIN e THEN e[f] ELSE d[f]]

----------------------------------------------------------------------------
(* PermissionLevel and check_permission *)

PUBLIC == <<"P", "U", "B", "L", "I", "C">>
MEMBER == <<"M", "E", "M", "B", "E", "R">>
ADMIN == <<"A", "D", "M", "I", "N">>
OWNER == <<"O", "W", "N", "E", "R">>

\* the member names of the enum: PermissionLevel[name] raises KeyError for
\* any other name
PermissionLevelNames == {PUBLIC, MEMBER, ADMIN, OWNER}

\* the ordinal of a level: PUBLIC < MEMBER < ADMIN < OWNER
Rank(level) ==
    CASE level = PUBLIC -> 0
      [] level = MEMBER -> 1
      [] level = ADMIN -> 2
      [] level = OWNER -> 3

\* the role assignments: user 1 is an ADMIN, nobody else has an assigned role
user_roles == <<<<1, ADMIN>>>>

\* the role of a user, MEMBER when none is assigned
ResolveRole(user_id) ==
    IF Has(user_roles, user_id) THEN Get(user_roles, user_id) ELSE MEMBER

check_permission(user_id, required_level) ==
    Rank(ResolveRole(user_id)) >= Rank(required_level)

----------------------------------------------------------------------------
(* MessageStats *)

NoFile == [exists |-> FALSE]

\* json.dump(self.stats, f): a defaultdict is written as a JSON object
JsonDump(st) == [exists |-> TRUE, users |-> st.users, messages |-> st.messages]

\* load_stats: json.load gives plain dicts; without a file the default has
\* a defaultdict(list) for the messages
load_stats(file) ==
    IF file.exists
    THEN [users |-> file.users, messages |-> file.messages, defaultdict |-> FALSE]
    ELSE [users |-> <<>>, messages |-> <<>>, defaultdict |-> TRUE]

\* save_stats: the new content of the stats file
save_stats(st) == JsonDump(st)

\* no users record is made
EnsureUser_Never(users, user_id, username, date) == users

\* the users dict after the `if str(user_id) not in self.stats['users']` block
EnsureUser(users, user_id, username, date) ==
    IF ~Has(users, Str(user_id))
    THEN Put(users, Str(user_id),
             [username |-> username, first_seen |-> Isoformat(date)])
    ELSE users

\* self.stats['messages'][str(user_id)] raises KeyError when the key is
\* missing and messages is a plain dict; a defaultdict inserts [] instead
LookupRaises(st, user_id) ==
    ~Has(st.messages, Str(user_id)) /\ ~st.defaultdict

\* the new event goes before the events held
AppendMessage_Front(messages, user_id, date) ==
    IF Has(messages, Str(user_id))
    THEN Put(messages, Str(user_id),
             <<Isoformat(date)>> \o Get(messages, Str(user_id)))
    ELSE Put(messages, Str(user_id), <<Isoformat(date)>>)

\* self.stats['messages'][str(user_id)].append(date.isoformat())
AppendMessage(messages, user_id, date) ==
    IF Has(messages, Str(user_id))
    THEN Put(messages, Str(user_id),
             Append(Get(messages, Str(user_id)), Isoformat(date)))
    ELSE Put(messages, Str(user_id), <<Isoformat(date)>>)

\* record_message: the stats and the stats file it leaves, and whether it
\* raised
record_message(st, file, user_id, username, date) ==
    LET st1 == [st EXCEPT !.users = EnsureUser(st.users, user_id, username, date)]
    IN  IF LookupRaises(st1, user_id)
        THEN [stats |-> st1, file |-> file, raised |-> TRUE]
        ELSE LET st2 == [st1 EXCEPT
                            !.messages = AppendMessage(st1.messages, user_id, date)]
             IN  [stats |-> st2, file |-> save_stats(st2), raised |-> FALSE]

\* the number of message events held
RECURSIVE TotalMessages(_)
TotalMessages(messages) ==
    IF messages = <<>> THEN 0
    ELSE Len(Head(messages)[2]) + TotalMessages(Tail(messages))

DigitValue(c) == (CHOOSE i \in 1..Len(Digits) : Digits[i] = c) - 1

RECURSIVE ParseInt(_)
\* int(s) for a string of digits
ParseInt(s) ==
    IF s = <<>> THEN 0
    ELSE ParseInt(SubSeq(s, 1, Len(s) - 1)) * 10 + DigitValue(s[Len(s)])

\* datetime.fromisoformat(s); like datetime.now(), the dates carry no time
\* zone
FromIsoformat(s) == ParseInt(Tail(s))

\* time is counted in hours: timedelta(days=1), timedelta(weeks=1) and
\* timedelta(days=30)
DayHours == 24
WeekHours == 168
MonthHours == 720

DAY == <<"d", "a", "y">>
WEEK == <<"w", "e", "e", "k">>
MONTH == <<"m", "o", "n", "t", "h">>

\* the week and month windows taken for one another
StartTime_Swapped(period, now) ==
    CASE period = DAY -> now - DayHours
      [] period = WEEK -> now - MonthHours
      [] period = MONTH -> now - WeekHours

\* start_time of the if/elif chain, for the three periods it knows
StartTime(period, now) ==
    CASE period = DAY -> now - DayHours
      [] period = WEEK -> now - WeekHours
      [] period = MONTH -> now - MonthHours

\* an event at the start of the window counts
After_OrEqual(msg_time, start_time) == FromIsoformat(msg_time) >= start_time

\* datetime.fromisoformat(msg_time) > start_time
After(msg_time, start_time) == FromIsoformat(msg_time) > start_time

RECURSIVE CountAfter(_, _)
\* sum(1 for msg_time in messages if ... > start_time)
CountAfter(messages, start_time) ==
    IF messages = <<>> THEN 0
    ELSE (IF After(Head(messages), start_time) THEN 1 ELSE 0)
         + CountAfter(Tail(messages), start_time)

\* a period the chain does not know is counted as a month
get_user_stats_DefaultMonth(st, user_id, period, now) ==
    IF ~Has(st.messages, user_id) THEN 0
    ELSE CountAfter(Get(st.messages, user_id),
                    IF period \in {DAY, WEEK} THEN StartTime(period, now)
                    ELSE now - MonthHours)

\* get_user_stats, with datetime.now() = now
get_user_stats(st, user_id, period, now) ==
    IF ~Has(st.messages, user_id) THEN 0
    ELSE LET messages == Get(st.messages, user_id)
         IN  IF period \in {DAY, WEEK, MONTH}
             THEN CountAfter(messages, StartTime(period, now))
             ELSE Len(messages)

\* the rows of get_leaderboard before sorting, in the order of the messages
\* dict
LeaderboardRows(st, period, now) ==
    [i \in 1..Len(st.messages) |->
        LET user_id == st.messages[i][1]
        IN  [user_id |-> user_id,
             username |-> Get(st.users, user_id).username,
             count |-> get_user_stats(st, user_id, period, now)]]

\* a row goes before the rows of the same count
InsertRow_TiesFirst(sorted, row) ==
    LET before == {i \in 1..Len(sorted) : sorted[i].count > row.count}
    IN  SubSeq(sorted, 1, Cardinality(before)) \o <<row>>
        \o SubSeq(sorted, Cardinality(before) + 1, Len(sorted))

\* a row goes behind the rows that count at least as much
InsertRow(sorted, row) ==
    LET before == {i \in 1..Len(sorted) : sorted[i].count >= row.count}
    IN  SubSeq(sorted, 1, Cardinality(before)) \o <<row>>
        \o SubSeq(sorted, Cardinality(before) + 1, Len(sorted))

RECURSIVE SortByCount(_)
\* stats.sort(key=lambda x: x['count'], reverse=True): a stable sort
SortByCount(rows) ==
    IF rows = <<>> THEN <<>>
    ELSE InsertRow(SortByCount(SubSeq(rows, 1, Len(rows) - 1)), rows[Len(rows)])

\* s[:limit] for limit >= 0
Take(s, limit) == SubSeq(s, 1, IF limit < Len(s) THEN limit ELSE Len(s))

\* self.stats['users'][user_id] raises KeyError for a user without a record
UserLookupRaises(st) ==
    \E i \in 1..Len(st.messages) : ~Has(st.users, st.messages[i][1])

\* get_leaderboard: the list it returns, and whether it raised
get_leaderboard(st, period, limit, now) ==
    IF UserLookupRaises(st) THEN [rows |-> <<>>, raised |-> TRUE]
    ELSE [rows |-> Take(SortByCount(LeaderboardRows(st, period, now)), limit),
          raised |-> FALSE]

\* the default of get_leaderboard's limit
DefaultLimit == 10

----------------------------------------------------------------------------
(* KeywordBot *)

\* self.config['allowed_group_ids']
allowed_group_ids == {1}

\* save_data: the keyword table as written to its store
save_data(kw) == kw

\* the keyword table as read back from its store at start-up
load_data(file) == file

Reply(kind, args) == [kind |-> kind, args |-> args]

Result(kw, file, out, how) ==
    [keywords |-> kw, file |-> file, replies |-> out, outcome |-> how]

\* the body of `for keyword, data in self.keywords.items()` from entry i on:
\* the replies sent and how the handler ends
RECURSIVE ScanFrom(_, _, _, _)
ScanFrom(kw, i, user_id, text) ==
    IF i > Len(kw) THEN [replies |-> <<>>, outcome |-> "returned"]
    ELSE LET keyword == kw[i][1]
             data == kw[i][2]
         IN  IF Contains(Lower(keyword), text)
             THEN IF data.permission_level \notin PermissionLevelNames
                  THEN [replies |-> <<>>, outcome |-> "KeyError"]
                  ELSE IF check_permission(user_id, data.permission_level)
                       THEN [replies |-> <<Reply("text", <<data.response>>)>>,
                             outcome |-> "returned"]
                       ELSE ScanFrom(kw, i + 1, user_id, text)
             ELSE ScanFrom(kw, i + 1, user_id, text)

\* user.username or user.first_name
DisplayName(user) ==
    IF user.username # <<>> THEN user.username ELSE user.first_name

\* message_handler: the stats, stats file, replies and outcome it leaves
message_handler(kw, st, file, msg) ==
    IF msg.chat \notin allowed_group_ids
    THEN [stats |-> st, file |-> file, replies |-> <<>>, outcome |-> "returned"]
    ELSE LET r == record_message(st, file, msg.from_user.id,
                                 DisplayName(msg.from_user), msg.date)
         IN  IF r.raised
             THEN [stats |-> r.stats, file |-> r.file, replies |-> <<>>,
                   outcome |-> "KeyError"]
             ELSE LET s == ScanFrom(kw, 1, msg.from_user.id, Lower(Strip(msg.text)))
                  IN  [stats |-> r.stats, file |-> r.file, replies |-> s.replies,
                       outcome |-> s.outcome]

\* show_leaderboard: the reply and the outcome it leaves
show_leaderboard(st, msg, now) ==
    LET args == msg.args
        period == IF args # <<>> /\ args[1] \in {DAY, WEEK, MONTH}
                  THEN args[1] ELSE DAY
        r == get_leaderboard(st, period, DefaultLimit, now)
    IN  IF r.raised THEN [replies |-> <<>>, outcome |-> "KeyError"]
        ELSE IF r.rows = <<>>
        THEN [replies |-> <<Reply("no_data", <<period>>)>>, outcome |-> "returned"]
        ELSE [replies |->
                 <<Reply("leaderboard",
                         <<period,
                           [i \in 1..Len(r.rows) |->
                               <<i, r.rows[i].username, r.rows[i].count>>]>>)>>,
              outcome |-> "returned"]

\* a command of a user without the ADMIN level is refused
NotPermitted_Never(user_id) == FALSE

\* `not self.check_permission(user_id, PermissionLevel.ADMIN)`
NotPermitted(user_id) == ~check_permission(user_id, ADMIN)

\* a level argument is taken whatever it names
ParsesLevel_Any(arg) == TRUE

\* PermissionLevel[arg.upper()] finds a member and raises no KeyError
ParsesLevel(arg) == Upper(arg) \in PermissionLevelNames

\* the level argument is stored as it was typed
LevelName_AsTyped(arg) == arg

\* PermissionLevel[arg.upper()].name
LevelName(arg) == Upper(arg)

\* the entry of a keyword after self.keywords[keyword].update({...})
EditedData(data, response, level, user_id, date) ==
    DictUpdate(data, [response |-> response, permission_level |-> level,
                      updated_by |-> user_id, updated_at |-> StrDate(date)])

\* edit_keyword: the table, its store, the reply and the outcome it leaves
edit_keyword(kw, file, msg) ==
    LET user_id == msg.from_user.id
        args == msg.args
    IN  IF NotPermitted(user_id)
        THEN Result(kw, file, <<Reply("denied", <<>>)>>, "returned")
        ELSE IF Len(args) < 3
        THEN Result(kw, file, <<Reply("usage", <<>>)>>, "returned")
        ELSE IF ~Has(kw, args[1])
        THEN Result(kw, file, <<Reply("not_found", <<args[1]>>)>>, "returned")
        ELSE IF ~ParsesLevel(args[2])
        THEN Result(kw, file, <<Reply("invalid_level", <<>>)>>, "returned")
        ELSE LET response == Join(<<" ">>, SubSeq(args, 3, Len(args)))
                 level == LevelName(args[2])
                 kw1 == Put(kw, args[1],
                            EditedData(Get(kw, args[1]), response, level,
                                       user_id, msg.date))
             IN  Result(kw1, save_data(kw1),
                        <<Reply("updated", <<args[1], level, response>>)>>,
                        "returned")

\* delete_keyword: the table, its store, the reply and the outcome it leaves
delete_keyword(kw, file, msg) ==
    LET user_id == msg.from_user.id
        args == msg.args
    IN  IF NotPermitted(user_id)
        THEN Result(kw, file, <<Reply("denied", <<>>)>>, "returned")
        ELSE IF Len(args) < 1
        THEN Result(kw, file, <<Reply("usage", <<>>)>>, "returned")
        ELSE IF ~Has(kw, args[1])
        THEN Result(kw, file, <<Reply("not_found", <<args[1]>>)>>, "returned")
        ELSE LET deleted_keyword == Get(kw, args[1])
                 kw1 == Pop(kw, args[1])
             IN  Result(kw1, save_data(kw1),
                        <<Reply("deleted", <<args[1], deleted_keyword.permission_level,
                                             deleted_keyword.response>>)>>,
                        "returned")

----------------------------------------------------------------------------
(* The updates the handlers are given *)

\* update.message.from_user: user 1 has a username, the others only a
\* first name
from_user(u) ==
    [id |-> u,
     username |-> IF u = 1 THEN <<"a", "l">> ELSE <<>>,
     first_name |-> <<"b", "o">>]

Chats == {1, 2}

Texts == {<<"a", "B", "c">>, <<" ", "C", " ">>, <<"d">>}

KeywordPool == {<<"a">>, <<"A", "b">>, <<"c">>}

\* a level name that is no member of PermissionLevel
VIP == <<"V", "I", "P">>

\* the entry a keyword has in the table the bot starts with
InitData(k) ==
    [response |-> <<"r">> \o k,
     permission_level |-> CASE k = <<"a">> -> ADMIN
                            [] k = <<"A", "b">> -> VIP
                            [] OTHER -> PUBLIC]

\* the keyword tables the bot may start with: any keywords of the pool, in
\* any order
InitTables ==
    UNION {{[i \in 1..n |-> <<f[i], InitData(f[i])>>] :
               f \in {g \in [1..n -> KeywordPool] :
                         \A i, j \in 1..n : i # j => g[i] # g[j]}} :
           n \in 0..MaxKeywords}

MessageUpdates ==
    [chat : Chats, from_user : {from_user(u) : u \in Users}, text : Texts,
     date : Dates]

LevelArgs == {<<"a", "d", "m", "i", "n">>, <<"P", "u", "b", "l", "i", "c">>, VIP}

\* the keywords the edits name
EditKeywords == {<<"a">>, <<"A", "b">>}

EditArgs ==
    {<<k, l, <<"o">>, <<"k">>>> : k \in EditKeywords, l \in LevelArgs}
    \cup {<<<<"a">>, ADMIN>>}

EditUpdates ==
    [from_user : {from_user(u) : u \in Users}, args : EditArgs, date : Dates]

DeleteArgs == {<<k>> : k \in KeywordPool} \cup {<<>>}

DeleteUpdates == [from_user : {from_user(u) : u \in Users}, args : DeleteArgs]

\* the readings of datetime.now() when the stats are asked for
Nows == {MonthHours}

\* the dates of the messages whose counts are asked for: two hours, a day,
\* a week and thirty days before that reading
StatsDates ==
    {MonthHours - 2, MonthHours - DayHours, MonthHours - WeekHours, 0}

StatsMessages ==
    [chat : allowed_group_ids, from_user : {from_user(u) : u \in Users},
     text : {<<"d">>}, date : StatsDates]

\* a period value get_user_stats does not know
ALL == <<"a", "l", "l">>

Periods == {DAY, WEEK, MONTH, ALL}

Limits == 0..MaxLimit

LeaderboardArgs == {<<>>} \cup {<<p>> : p \in Periods}

\* show_leaderboard reads nothing of its update but the arguments
LeaderboardUpdates == [args : LeaderboardArgs]

\* the updates of the handlers that run concurrently, of a user with the
\* ADMIN role and a user without a role: messages that name keywords, edits
\* of keyword "a" to the levels "Public" and "VIP", deletions of "a", and
\* /leaderboard
CoroutineUsers == {from_user(1), from_user(2)}

CoroutineMessages ==
    {msg \in MessageUpdates :
        /\ msg.from_user \in CoroutineUsers
        /\ msg.chat \in allowed_group_ids
        /\ msg.text = <<"a", "B", "c">>
        /\ msg.date = 0}

CoroutineEdits ==
    {msg \in EditUpdates :
        /\ msg.from_user \in CoroutineUsers
        /\ msg.date = 0
        /\ Len(msg.args) >= 3
        /\ msg.args[1] = <<"a">>
        /\ Upper(msg.args[2]) \in {PUBLIC, VIP}}

CoroutineDeletes ==
    {msg \in DeleteUpdates :
        msg.from_user \in CoroutineUsers /\ msg.args = <<<<"a">>>>}

CoroutineLeaderboards == {msg \in LeaderboardUpdates : msg.args = <<>>}

----------------------------------------------------------------------------
(* The state machine *)

Init ==
    /\ keywords \in InitTables
    /\ keywords_file = save_data(keywords)
    /\ stats = load_stats(NoFile)
    /\ stats_file = NoFile
    /\ handler = "__init__"
    /\ replies = <<>>
    /\ outcome = "returned"
    /\ pending = EmptyBag

\* main(): the process starts again and constructs KeywordBot and its
\* MessageStats from the stores
Restart ==
    /\ handler # "__init__"
    /\ keywords' = load_data(keywords_file)
    /\ stats' = load_stats(stats_file)
    /\ handler' = "__init__"
    /\ replies' = <<>>
    /\ outcome' = "returned"
    /\ UNCHANGED <<keywords_file, stats_file, pending>>

MessageHandler(msg) ==
    /\ msg.chat \in allowed_group_ids => TotalMessages(stats.messages) < MaxMessages
    /\ LET r == message_handler(keywords, stats, stats_file, msg)
       IN  /\ stats' = r.stats
           /\ stats_file' = r.file
           /\ replies' = r.replies
           /\ outcome' = r.outcome
    /\ handler' = "message_handler"
    /\ UNCHANGED <<keywords, keywords_file, pending>>

EditKeyword(msg) ==
    /\ LET r == edit_keyword(keywords, keywords_file, msg)
       IN  /\ keywords' = r.keywords
           /\ keywords_file' = r.file
           /\ replies' = r.replies
           /\ outcome' = r.outcome
    /\ handler' = "edit_keyword"
    /\ UNCHANGED <<stats, stats_file, pending>>

DeleteKeyword(msg) ==
    /\ LET r == delete_keyword(keywords, keywords_file, msg)
       IN  /\ keywords' = r.keywords
           /\ keywords_file' = r.file
           /\ replies' = r.replies
           /\ outcome' = r.outcome
    /\ handler' = "delete_keyword"
    /\ UNCHANGED <<stats, stats_file, pending>>

HandleMessage == \E msg \in MessageUpdates : MessageHandler(msg)

HandleEdit == \E msg \in EditUpdates : EditKeyword(msg)

HandleDelete == \E msg \in DeleteUpdates : DeleteKeyword(msg)

Next == HandleMessage \/ HandleEdit \/ HandleDelete \/ Restart

Spec == Init /\ [][Next]_vars

\* The message path alone. message_handler reads the keyword table and
\* never writes it, so the table stays the one loaded at start.
NextMessages == HandleMessage \/ Restart

SpecMessages == Init /\ [][NextMessages]_vars

\* The keyword commands alone. edit_keyword and delete_keyword neither read
\* nor write the stats, so the tables they reach are those Spec reaches.
NextKeywords == HandleEdit \/ HandleDelete

SpecKeywords == Init /\ [][NextKeywords]_vars

\* The stats alone: messages are recorded, with an empty keyword table, and
\* the counts (SpecStats) or the leaderboard (SpecLeaderboard) are asked for.
InitStats == Init /\ keywords = <<>>

RecordStats == \E msg \in StatsMessages : MessageHandler(msg)

\* a call of get_user_stats: its result is left in replies
GetUserStats(user_id, period, now) ==
    /\ replies' = <<get_user_stats(stats, user_id, period, now)>>
    /\ outcome' = "returned"
    /\ handler' = "get_user_stats"
    /\ UNCHANGED <<keywords, keywords_file, stats, stats_file, pending>>

\* a call of get_leaderboard: its result is left in replies
GetLeaderboard(period, limit, now) ==
    /\ LET r == get_leaderboard(stats, period, limit, now)
       IN  /\ replies' = r.rows
           /\ outcome' = IF r.raised THEN "KeyError" ELSE "returned"
    /\ handler' = "get_leaderboard"
    /\ UNCHANGED <<keywords, keywords_file, stats, stats_file, pending>>

ShowLeaderboard(msg, now) ==
    /\ LET r == show_leaderboard(stats, msg, now)
       IN  /\ replies' = r.replies
           /\ outcome' = r.outcome
    /\ handler' = "show_leaderboard"
    /\ UNCHANGED <<keywords, keywords_file, stats, stats_file, pending>>

AskUserStats ==
    \E u \in Users, period \in Periods, now \in Nows :
        GetUserStats(Str(u), period, now)

AskLeaderboard ==
    \E period \in Periods, limit \in Limits, now \in Nows :
        GetLeaderboard(period, limit, now)

HandleLeaderboard ==
    \E msg \in LeaderboardUpdates, now \in Nows : ShowLeaderboard(msg, now)

NextStats == RecordStats \/ Restart \/ AskUserStats

SpecStats == InitStats /\ [][NextStats]_vars

\* One run of the process, from an empty stats store
NextLeaderboard ==
    RecordStats \/ AskUserStats \/ AskLeaderboard \/ HandleLeaderboard

SpecLeaderboard == InitStats /\ [][NextLeaderboard]_vars

----------------------------------------------------------------------------
(* The handlers as coroutines. A coroutine runs from its start to its first
   await with no other coroutine's step in between; every await of the
   handlers is a reply_text call, and what follows it is the return or the
   end of the handler. Any suspended coroutine may be the next to resume. *)

Datasets == <<keywords, keywords_file, stats, stats_file>>

\* the lines after an await write the entry of the reply into the table once
\* more and save it
Resumed_WritesAgain(kw, file, task) ==
    IF task.reply.kind = "updated"
    THEN LET kw1 == Put(kw, task.reply.args[1],
                        [response |-> task.reply.args[3],
                         permission_level |-> task.reply.args[2]])
         IN  [keywords |-> kw1, file |-> save_data(kw1)]
    ELSE [keywords |-> kw, file |-> file]

\* the table and its store after the lines that follow an await: logger.info
\* and return, or the end of the handler
Resumed(kw, file, task) == [keywords |-> kw, file |-> file]

\* a coroutine that reaches reply_text is suspended with that call; one that
\* reaches none has ended
Await(name, r) ==
    /\ handler' = name
    /\ replies' = <<>>
    /\ IF r.replies = <<>>
       THEN /\ pending' = pending
            /\ outcome' = r.outcome
       ELSE /\ BagCardinality(pending) < MaxPending
            /\ pending' = pending (+) SetToBag({[handler |-> name,
                                                 reply |-> r.replies[1]]})
            /\ outcome' = "awaiting"

BeginMessage(msg) ==
    /\ TotalMessages(stats.messages) < MaxMessages
    /\ LET r == message_handler(keywords, stats, stats_file, msg)
       IN  /\ stats' = r.stats
           /\ stats_file' = r.file
           /\ Await("message_handler", r)
    /\ UNCHANGED <<keywords, keywords_file>>

BeginEdit(msg) ==
    /\ LET r == edit_keyword(keywords, keywords_file, msg)
       IN  /\ keywords' = r.keywords
           /\ keywords_file' = r.file
           /\ Await("edit_keyword", r)
    /\ UNCHANGED <<stats, stats_file>>

BeginDelete(msg) ==
    /\ LET r == delete_keyword(keywords, keywords_file, msg)
       IN  /\ keywords' = r.keywords
           /\ keywords_file' = r.file
           /\ Await("delete_keyword", r)
    /\ UNCHANGED <<stats, stats_file>>

BeginLeaderboard(msg, now) ==
    /\ Await("show_leaderboard", show_leaderboard(stats, msg, now))
    /\ UNCHANGED <<keywords, keywords_file, stats, stats_file>>

\* a suspended coroutine resumes: its reply_text call is done and the
\* handler runs to its end
Resume(task) ==
    /\ LET r == Resumed(keywords, keywords_file, task)
       IN  /\ keywords' = r.keywords
           /\ keywords_file' = r.file
    /\ handler' = task.handler
    /\ replies' = <<task.reply>>
    /\ outcome' = "returned"
    /\ pending' = pending (-) SetToBag({task})
    /\ UNCHANGED <<stats, stats_file>>

StartMessage == \E msg \in CoroutineMessages : BeginMessage(msg)

StartEdit == \E msg \in CoroutineEdits : BeginEdit(msg)

StartDelete == \E msg \in CoroutineDeletes : BeginDelete(msg)

StartLeaderboard ==
    \E msg \in CoroutineLeaderboards, now \in Nows : BeginLeaderboard(msg, now)

ResumeAny == \E task \in BagToSet(pending) : Resume(task)

NextCoroutines ==
    StartMessage \/ StartEdit \/ StartDelete \/ StartLeaderboard \/ ResumeAny

SpecCoroutines == Init /\ [][NextCoroutines]_vars

----------------------------------------------------------------------------
(* What the claims speak of *)

\* the keyword's lower-cased form is a substring of the lower-cased text
Matches(keyword, text) == Contains(Lower(keyword), Lower(text))

\* the position of the first keyword in table order that matches, or 0
FirstMatch(kw, text) ==
    IF \E i \in 1..Len(kw) : Matches(kw[i][1], text)
    THEN CHOOSE i \in 1..Len(kw) :
             /\ Matches(kw[i][1], text)
             /\ \A j \in 1..(i - 1) : ~Matches(kw[j][1], text)
    ELSE 0

\* the message events held for a user
EventsOf(st, user_id) ==
    IF Has(st.messages, Str(user_id)) THEN Get(st.messages, Str(user_id)) ELSE <<>>

\* the data a stats file holds, an absent file holding none
FileData(file) ==
    IF file.exists THEN [users |-> file.users, messages |-> file.messages]
    ELSE [users |-> <<>>, messages |-> <<>>]

MemoryData(st) == [users |-> st.users, messages |-> st.messages]

\* the message is one message_handler accepts and the step handles it
Handles(msg) == MessageHandler(msg) /\ msg.chat \in allowed_group_ids

----------------------------------------------------------------------------
(* C1..C7: the message path *)

\* C1: when the first keyword in table order that matches the text requires
\* a level the sender does not satisfy, the handler sends no reply at all.
C1_DeniedFirstMatchIsSilent ==
    [][\A msg \in MessageUpdates :
          LET i == FirstMatch(keywords, msg.text)
          IN  (/\ Handles(msg)
               /\ i # 0
               /\ keywords[i][2].permission_level \in PermissionLevelNames
               /\ ~check_permission(msg.from_user.id,
                                    keywords[i][2].permission_level))
              => replies' = <<>>]_vars

\* C2: when the sender satisfies the level of the first keyword in table
\* order that matches the text, exactly one reply is sent and it is that
\* keyword's response.
C2_FirstMatchAnswers ==
    [][\A msg \in MessageUpdates :
          LET i == FirstMatch(keywords, msg.text)
          IN  (/\ Handles(msg)
               /\ i # 0
               /\ keywords[i][2].permission_level \in PermissionLevelNames
               /\ check_permission(msg.from_user.id,
                                   keywords[i][2].permission_level))
              => replies' = <<Reply("text", <<keywords[i][2].response>>)>>]_vars

\* C3: after record_message(user, name, t) the user has a users record, with
\* first_seen = t when it was new, t is the last element of the user's
\* message list, and the stats file holds the same data.
C3_RecordMessageRecords ==
    [][\A msg \in MessageUpdates :
          LET uid == Str(msg.from_user.id)
          IN  Handles(msg)
              => /\ Has(stats'.users, uid)
                 /\ ~Has(stats.users, uid)
                       => Get(stats'.users, uid).first_seen = Isoformat(msg.date)
                 /\ Has(stats'.messages, uid)
                 /\ LET events == Get(stats'.messages, uid)
                    IN  events # <<>> /\ events[Len(events)] = Isoformat(msg.date)
                 /\ FileData(stats_file') = MemoryData(stats')]_vars

\* C4: whenever a handler has finished, the store of each dataset holds what
\* the working copy in memory holds.
C4_StoresMatchMemory ==
    /\ load_data(keywords_file) = keywords
    /\ FileData(stats_file) = MemoryData(stats)

\* C5: when the first keyword that matches the text carries a level that is
\* none of PUBLIC, MEMBER, ADMIN, OWNER, the handler does not fail and sends
\* that keyword's response, whoever the sender is.
C5_UnknownLevelIsPublic ==
    [][\A msg \in MessageUpdates :
          LET i == FirstMatch(keywords, msg.text)
          IN  (/\ Handles(msg)
               /\ ~LookupRaises(stats, msg.from_user.id)
               /\ i # 0
               /\ keywords[i][2].permission_level \notin PermissionLevelNames)
              => /\ outcome' = "returned"
                 /\ replies' = <<Reply("text", <<keywords[i][2].response>>)>>]_vars

\* C6: in one message_handler run recording and matching fail independently:
\* the replies are those of the keyword scan also when recording fails, and
\* the message event is recorded also when the scan fails.
C6_IndependentFailures ==
    [][\A msg \in MessageUpdates :
          Handles(msg)
          => /\ replies' = ScanFrom(keywords, 1, msg.from_user.id,
                                    Lower(Strip(msg.text))).replies
             /\ ScanFrom(keywords, 1, msg.from_user.id,
                         Lower(Strip(msg.text))).outcome = "KeyError"
                   => /\ EventsOf(stats', msg.from_user.id)
                            = Append(EventsOf(stats, msg.from_user.id),
                                     Isoformat(msg.date))
                      /\ FileData(stats_file') = MemoryData(stats')]_vars

\* C7: a message from a chat that is not allowed gets no reply and changes
\* neither the stats, the keyword table nor a store; a message from an
\* allowed chat has exactly one message event recorded for its sender.
C7_AllowListFrame ==
    [][\A msg \in MessageUpdates :
          MessageHandler(msg)
          => IF msg.chat \notin allowed_group_ids
             THEN /\ replies' = <<>>
                  /\ UNCHANGED <<stats, stats_file, keywords, keywords_file>>
             ELSE /\ Len(EventsOf(stats', msg.from_user.id))
                        = Len(EventsOf(stats, msg.from_user.id)) + 1
                  /\ TotalMessages(stats'.messages)
                        = TotalMessages(stats.messages) + 1]_vars

----------------------------------------------------------------------------
(* C8..C10: the keyword commands *)

\* the entries of a table other than the one of keyword k, in table order
RECURSIVE Without(_, _)
Without(kw, k) ==
    IF kw = <<>> THEN <<>>
    ELSE IF Head(kw)[1] = k THEN Without(Tail(kw), k)
    ELSE <<Head(kw)>> \o Without(Tail(kw), k)

\* the edits of users check_permission(user, ADMIN) admits, and their
\* deletions that name a keyword
PermittedEdits ==
    {msg \in EditUpdates : check_permission(msg.from_user.id, ADMIN)}

PermittedDeletes ==
    {msg \in DeleteUpdates :
        check_permission(msg.from_user.id, ADMIN) /\ Len(msg.args) >= 1}

\* the edits and deletions of the other users, with any arguments
RefusedEdits ==
    {msg \in EditUpdates : ~check_permission(msg.from_user.id, ADMIN)}

RefusedDeletes ==
    {msg \in DeleteUpdates : ~check_permission(msg.from_user.id, ADMIN)}

\* C8: edit_keyword(keyword, level, response) of a permitted user answers
\* not-found for a keyword that is not in the table and does not create it,
\* and refuses a level that names none of PUBLIC, MEMBER, ADMIN, OWNER in any
\* letter case; either way, as when an argument is missing, the table and
\* its store stay as they were.
C8_EditRejectsWithoutChange ==
    [][handler' = "edit_keyword" =>
         \A msg \in PermittedEdits :
            ((\/ Len(msg.args) < 3
              \/ ~Has(keywords, msg.args[1])
              \/ Upper(msg.args[2]) \notin PermissionLevelNames)
             /\ EditKeyword(msg))
            => /\ UNCHANGED <<keywords, keywords_file>>
               /\ replies' =
                     IF Len(msg.args) < 3
                     THEN <<Reply("usage", <<>>)>>
                     ELSE IF ~Has(keywords, msg.args[1])
                     THEN <<Reply("not_found", <<msg.args[1]>>)>>
                     ELSE <<Reply("invalid_level", <<>>)>>]_vars

\* an edit of a keyword of the table was refused for its level
C8_InvalidLevelRefused ==
    /\ handler = "edit_keyword"
    /\ replies = <<Reply("invalid_level", <<>>)>>
    /\ keywords # <<>>

\* C9: edit_keyword and delete_keyword of a user for whom
\* check_permission(user, ADMIN) is false answer with the denial, whatever
\* the arguments, and leave the table and its store as they were.
C9_DeniedChangesNothing ==
    [][/\ handler' = "edit_keyword" =>
             \A msg \in RefusedEdits :
                EditKeyword(msg)
                => /\ replies' = <<Reply("denied", <<>>)>>
                   /\ UNCHANGED <<keywords, keywords_file>>
       /\ handler' = "delete_keyword" =>
             \A msg \in RefusedDeletes :
                DeleteKeyword(msg)
                => /\ replies' = <<Reply("denied", <<>>)>>
                   /\ UNCHANGED <<keywords, keywords_file>>]_vars

\* a command was denied while the table held keywords it could have named
C9_CommandDenied ==
    /\ handler \in {"edit_keyword", "delete_keyword"}
    /\ replies = <<Reply("denied", <<>>)>>
    /\ keywords # <<>>

\* C10: delete_keyword(keyword) of a permitted user, for a keyword of the
\* table, removes that keyword alone, reports the level and response its
\* entry had, saves the table and keeps the other entries in their order;
\* for a keyword that is not in the table, as after its deletion, it answers
\* not-found and changes nothing.
C10_DeleteRemovesOne ==
    [][handler' = "delete_keyword" =>
         \A msg \in PermittedDeletes :
            DeleteKeyword(msg)
            => LET k == msg.args[1]
               IN  IF Has(keywords, k)
                   THEN /\ keywords' = Without(keywords, k)
                        /\ Len(keywords') = Len(keywords) - 1
                        /\ ~Has(keywords', k)
                        /\ keywords_file' = keywords'
                        /\ replies' =
                              <<Reply("deleted",
                                      <<k, Get(keywords, k).permission_level,
                                        Get(keywords, k).response>>)>>
                   ELSE /\ replies' = <<Reply("not_found", <<k>>)>>
                        /\ UNCHANGED <<keywords, keywords_file>>]_vars

\* a keyword was deleted from a table that keeps two others
C10_DeletedFromThree ==
    /\ handler = "delete_keyword"
    /\ Len(replies) = 1
    /\ replies[1].kind = "deleted"
    /\ Len(keywords) = 2

----------------------------------------------------------------------------
(* C11..C14: the counts and the leaderboard *)

\* the length of a period's window: 24 hours, 7 days, 30 days
WindowHours(period) ==
    CASE period = DAY -> DayHours
      [] period = WEEK -> 7 * DayHours
      [] period = MONTH -> 30 * DayHours

\* the number of a user's events in the window of a period that has one, and
\* of all the user's events for any other period
CountIn(st, user_id, period, now) ==
    LET events == IF Has(st.messages, user_id) THEN Get(st.messages, user_id)
                  ELSE <<>>
    IN  IF period \in {DAY, WEEK, MONTH}
        THEN Cardinality({k \in 1..Len(events) :
                 FromIsoformat(events[k]) > now - WindowHours(period)})
        ELSE Len(events)

\* period values that are none of day, week and month
OtherPeriods == {ALL, <<"D", "A", "Y">>, <<>>}

\* C11: for the periods day, week and month and a user with events,
\* get_user_stats returns the number of the user's events whose timestamp is
\* strictly greater than now minus 24 hours, 7 days or 30 days; an event at
\* exactly now minus the window is not counted.
C11_CountsStrictlyInsideWindow ==
    \A u \in Users, period \in {DAY, WEEK, MONTH}, now \in Nows :
        Has(stats.messages, Str(u))
        => get_user_stats(stats, Str(u), period, now)
           = CountIn(stats, Str(u), period, now)

\* the day count was asked for a user with one event two hours old and one
\* exactly 24 hours old, and was 1
C11_EventAtWindowStart ==
    /\ handler = "get_user_stats"
    /\ replies = <<1>>
    /\ \E u \in Users, now \in Nows :
          EventsOf(stats, u) = <<Isoformat(now - DayHours), Isoformat(now - 2)>>

\* C12: for any other period value get_user_stats returns the number of all
\* the user's events, whatever their timestamps; for a user id without
\* events it returns 0 for every period.
C12_OtherPeriodCountsAll ==
    \A u \in Users, now \in Nows :
        IF Has(stats.messages, Str(u))
        THEN \A period \in OtherPeriods :
                get_user_stats(stats, Str(u), period, now)
                = Len(Get(stats.messages, Str(u)))
        ELSE \A period \in Periods \cup OtherPeriods :
                get_user_stats(stats, Str(u), period, now) = 0

\* a count was asked for and was 2, when one user held two events, both
\* thirty days old, and another user held none
C12_AllTimeCountAsked ==
    /\ handler = "get_user_stats"
    /\ replies = <<2>>
    /\ \E u \in Users, now \in Nows :
          EventsOf(stats, u) = <<Isoformat(now - MonthHours),
                                Isoformat(now - MonthHours)>>
    /\ \E u \in Users : ~Has(stats.messages, Str(u))

\* the place of the i-th user of the messages dict in the leaderboard: behind
\* the users that count more and the earlier users that count the same
PlaceOf(st, i, period, now) ==
    LET count(j) == CountIn(st, st.messages[j][1], period, now)
    IN  1 + Cardinality({j \in 1..Len(st.messages) : count(j) > count(i)})
          + Cardinality({j \in 1..(i - 1) : count(j) = count(i)})

\* C13: get_leaderboard(period, limit), limit >= 0, returns the first limit
\* elements of the list of all users with a message list, in the order of
\* descending count in the period's window, users of equal count in the order
\* in which they were first recorded.
C13_LeaderboardOrder ==
    \A period \in Periods, limit \in Limits, now \in Nows :
        LET r == get_leaderboard(stats, period, limit, now)
            n == Len(stats.messages)
        IN  /\ ~r.raised
            /\ Len(r.rows) = IF limit < n THEN limit ELSE n
            /\ \A i \in 1..n :
                  LET user_id == stats.messages[i][1]
                      place == PlaceOf(stats, i, period, now)
                  IN  place <= Len(r.rows)
                      => r.rows[place] =
                            [user_id |-> user_id,
                             username |-> Get(stats.users, user_id).username,
                             count |-> CountIn(stats, user_id, period, now)]

\* user 2 was recorded before user 1, both count 1, and the leaderboard of
\* limit 1 holds user 2
C13_TieCutByLimit ==
    /\ handler = "get_leaderboard"
    /\ Len(stats.messages) = 2
    /\ stats.messages[1][1] = Str(2)
    /\ Len(Get(stats.messages, Str(1))) = 1
    /\ Len(Get(stats.messages, Str(2))) = 1
    /\ Len(replies) = 1
    /\ replies[1].user_id = Str(2)
    /\ replies[1].count = 1

\* the timestamps of a message list never decrease along it
Chronological(events) ==
    \A i, j \in 1..Len(events) :
        i < j => FromIsoformat(events[i]) <= FromIsoformat(events[j])

\* C14, as claimed: whatever record_message calls were made through
\* message_handler, each user's message list is in non-decreasing timestamp
\* order.
C14_AlwaysChronological ==
    \A u \in Users : Chronological(EventsOf(stats, u))

\* C14, amended: each user's message list is in the order in which its
\* events were recorded: a step changes a list only by putting the date of a
\* message at its end, so the list is in non-decreasing timestamp order
\* after that exactly when it was before and the message is not dated before
\* the last event held.
C14_ArrivalOrder ==
    [][\A u \in Users :
          LET old == EventsOf(stats, u)
              new == EventsOf(stats', u)
          IN  \/ new = old
              \/ /\ handler' = "message_handler"
                 /\ \E date \in StatsDates :
                       /\ new = Append(old, Isoformat(date))
                       /\ Chronological(new)
                          <=> /\ Chronological(old)
                              /\ old # <<>>
                                    => FromIsoformat(old[Len(old)]) <= date]_vars

\* a message dated thirty days back was recorded after one two hours old
C14_EarlierMessageLast ==
    /\ handler = "message_handler"
    /\ outcome = "returned"
    /\ \E u \in Users, now \in Nows :
          EventsOf(stats, u) = <<Isoformat(now - 2), Isoformat(now - MonthHours)>>

----------------------------------------------------------------------------
(* C15: the handlers as coroutines *)

\* C15: however the coroutines of message_handler, edit_keyword,
\* delete_keyword and show_leaderboard interleave at their awaits, a step
\* that starts a handler leaves the tables and their stores as that handler
\* leaves them when it runs alone, check, change and save together, and a
\* step that resumes a handler changes none of them; so they are at any time
\* what the handlers leave when run one after the other in the order of their
\* starts, and no change of a handler is undone by another.
C15_HandlersSerialize ==
    [][IF BagCardinality(pending') < BagCardinality(pending)
       THEN UNCHANGED Datasets
       ELSE CASE handler' = "message_handler" ->
                        \E msg \in CoroutineMessages :
                           LET r == message_handler(keywords, stats, stats_file, msg)
                           IN  Datasets' = <<keywords, keywords_file, r.stats, r.file>>
                 [] handler' = "edit_keyword" ->
                        \E msg \in CoroutineEdits :
                           LET r == edit_keyword(keywords, keywords_file, msg)
                           IN  Datasets' = <<r.keywords, r.file, stats, stats_file>>
                 [] handler' = "delete_keyword" ->
                        \E msg \in CoroutineDeletes :
                           LET r == delete_keyword(keywords, keywords_file, msg)
                           IN  Datasets' = <<r.keywords, r.file, stats, stats_file>>
                 [] handler' = "show_leaderboard" -> UNCHANGED Datasets]_vars

\* an edit of keyword "a" resumed after a deletion of "a" that started while
\* it was suspended, and the deletion is still suspended
C15_EditResumedAfterDelete ==
    /\ handler = "edit_keyword"
    /\ Len(replies) = 1
    /\ replies[1].kind = "updated"
    /\ ~Has(keywords, replies[1].args[1])
    /\ BagCardinality(pending) = 1
    /\ \E task \in BagToSet(pending) :
          task.handler = "delete_keyword" /\ task.reply.kind = "deleted"

----------------------------------------------------------------------------
(* C16..C20 *)

\* the edits that edit_keyword carries out on a table
Succeeds(kw, msg) ==
    /\ Len(msg.args) >= 3
    /\ Has(kw, msg.args[1])
    /\ Upper(msg.args[2]) \in PermissionLevelNames

\* C16: a successful edit_keyword(k, level, response) of editor e at time d
\* sets the response of k's entry to the given text, its permission_level
\* to the upper-case name of the level, updated_by to e and updated_at to d,
\* keeps what else the entry holds, saves the table, and leaves every other
\* entry and the order of the table as they were.
C16_EditUpdatesInPlace ==
    [][handler' = "edit_keyword" =>
         \A msg \in PermittedEdits :
            (Succeeds(keywords, msg) /\ EditKeyword(msg))
            => LET k == msg.args[1]
                   old == Get(keywords, k)
                   new == Get(keywords', k)
               IN  /\ Len(keywords') = Len(keywords)
                   /\ \A i \in 1..Len(keywords) :
                         /\ keywords'[i][1] = keywords[i][1]
                         /\ keywords[i][1] # k => keywords'[i] = keywords[i]
                   /\ new.response = Join(<<" ">>, SubSeq(msg.args, 3, Len(msg.args)))
                   /\ new.permission_level = Upper(msg.args[2])
                   /\ new.permission_level \in PermissionLevelNames
                   /\ new.updated_by = msg.from_user.id
                   /\ new.updated_at = StrDate(msg.date)
                   /\ DOMAIN new = DOMAIN old \cup {"response", "permission_level",
                                                    "updated_by", "updated_at"}
                   /\ \A f \in DOMAIN old \ {"response", "permission_level",
                                             "updated_by", "updated_at"} :
                         new[f] = old[f]
                   /\ keywords_file' = keywords'
                   /\ replies' = <<Reply("updated",
                                         <<k, new.permission_level, new.response>>)>>]_vars

\* the first keyword of a table of two or more was edited
C16_FirstOfSeveralEdited ==
    /\ handler = "edit_keyword"
    /\ Len(replies) = 1
    /\ replies[1].kind = "updated"
    /\ Len(keywords) >= 2
    /\ replies[1].args[1] = keywords[1][1]
    /\ "updated_by" \in DOMAIN keywords[1][2]

\* C17: a record_message call for user u puts exactly one element at the end
\* of u's message list and keeps the elements before it, leaves the message
\* lists and the users records of the other users as they were, and keeps the
\* users record of a user that has one.
C17_AppendOnly ==
    [][handler' = "message_handler" =>
         \A msg \in MessageUpdates :
            Handles(msg)
            => LET u == msg.from_user.id
               IN  /\ EventsOf(stats', u)
                         = Append(EventsOf(stats, u), Isoformat(msg.date))
                   /\ \A v \in Users \ {u} :
                         /\ EventsOf(stats', v) = EventsOf(stats, v)
                         /\ Has(stats'.users, Str(v)) <=> Has(stats.users, Str(v))
                   /\ \A v \in Users :
                         Has(stats.users, Str(v))
                         => /\ Has(stats'.users, Str(v))
                            /\ Get(stats'.users, Str(v)) = Get(stats.users, Str(v))]_vars

\* C18: from an empty stats store, whatever record_message, get_user_stats
\* and get_leaderboard calls were made, every user id with a message list
\* has a users record, and get_leaderboard's lookup of the name raises
\* nothing.
C18_MessagesHaveUsers ==
    /\ \A i \in 1..Len(stats.messages) : Has(stats.users, stats.messages[i][1])
    /\ handler = "get_leaderboard" => outcome = "returned"

\* the leaderboard was asked for when two users had message lists
C18_LeaderboardOfTwo ==
    /\ handler = "get_leaderboard"
    /\ Len(stats.messages) = 2
    /\ Len(replies) = 2

\* every permission_level of a table is a name of PermissionLevel
AllLevelsNamed(kw) ==
    \A i \in 1..Len(kw) : kw[i][2].permission_level \in PermissionLevelNames

\* C19: when every permission_level of the table is one of PUBLIC, MEMBER,
\* ADMIN, OWNER, it still is after an edit_keyword or delete_keyword call,
\* whatever its arguments and its user.
C19_LevelsStayNamed ==
    [][AllLevelsNamed(keywords) => AllLevelsNamed(keywords')]_vars

\* a keyword was given a level typed in another letter case, in a table whose
\* levels are all names of PermissionLevel
C19_LevelEdited ==
    /\ handler = "edit_keyword"
    /\ Len(replies) = 1
    /\ replies[1].kind = "updated"
    /\ replies[1].args[2] \in {ADMIN, PUBLIC}
    /\ AllLevelsNamed(keywords)

\* C20: at one reading of the clock a user's day count is at most the week
\* count, that at most the month count, and that at most the count of any
\* other period; a record_message call lowers no user's count of all events.
C20_WindowsNest ==
    [][\A u \in Users, now \in Nows :
          LET count(period) == get_user_stats(stats', Str(u), period, now)
          IN  /\ count(DAY) <= count(WEEK)
              /\ count(WEEK) <= count(MONTH)
              /\ count(MONTH) <= count(ALL)
              /\ handler' = "message_handler"
                    => count(ALL) >= get_user_stats(stats, Str(u), ALL, now)]_vars

\* a message was recorded for a user whose week, month and all-time counts
\* differ
C20_CountsDiffer ==
    /\ handler = "message_handler"
    /\ outcome = "returned"
    /\ \E u \in Users, now \in Nows :
          /\ get_user_stats(stats, Str(u), WEEK, now)
                < get_user_stats(stats, Str(u), MONTH, now)
          /\ get_user_stats(stats, Str(u), MONTH, now)
                < get_user_stats(stats, Str(u), ALL, now)

====
